---- MODULE Spec2Model ----
(***************************************************************************)
(* Verification model of the Input application sources:                    *)
(*   - MerginFile / MerginProjectMetadata (JSON project metadata parsing   *)
(*     and the fileInfo lookup),                                           *)
(*   - the externalResourceHandler of the attachment (photo) widgets.      *)
(*   - MapThemesModel (the list of map themes and its active row).         *)
(*                                                                         *)
(* A QString is a sequence of one-character strings, except the text of a  *)
(* timestamp, which is a sequence of its lexical parts (date, time, zone). *)
(* A QJsonDocument is given by the result of QJsonDocument::fromJson: its  *)
(* kind (null for bytes that are no JSON object or array) and the members  *)
(* of the top-level object the code reads.                                 *)
(***************************************************************************)
EXTENDS Integers, Sequences, FiniteSets, TLC

(* ----------------------------- bounds ---------------------------------- *)

\* Longest "files" array of a generated document.
MaxFiles == 2

\* Longest generated "version" string (the ones at the limits of int are extra).
MaxVersionLen == 3

\* Most image pickers that may be open (asked for and not yet answered) at once.
MaxPending == 2

(* ------------------------- QString helpers ----------------------------- *)

EmptyString == << >>

Digits == {"0", "1", "2", "3", "4", "5", "6", "7", "8", "9"}

DigitValue(c) ==
  CASE c = "0" -> 0 [] c = "1" -> 1 [] c = "2" -> 2 [] c = "3" -> 3
    [] c = "4" -> 4 [] c = "5" -> 5 [] c = "6" -> 6 [] c = "7" -> 7
    [] c = "8" -> 8 [] c = "9" -> 9

\* The decimal digits of the largest int (2^31 - 1), and of -(smallest int).
IntMaxDigits == <<"2", "1", "4", "7", "4", "8", "3", "6", "4", "7">>
IntMinDigits == <<"2", "1", "4", "7", "4", "8", "3", "6", "4", "8">>

RECURSIVE StripZeros(_)
StripZeros(ds) ==
  IF Len(ds) > 1 /\ ds[1] = "0" THEN StripZeros(Tail(ds)) ELSE ds

RECURSIVE DigitsLeq(_, _)
\* ds <= limit for two digit strings of the same length
DigitsLeq(ds, limit) ==
  IF ds = << >> THEN TRUE
  ELSE IF DigitValue(ds[1]) < DigitValue(limit[1]) THEN TRUE
  ELSE IF DigitValue(ds[1]) > DigitValue(limit[1]) THEN FALSE
  ELSE DigitsLeq(Tail(ds), Tail(limit))

\* Whether the number written by the digits ds is at most the one written by limit.
FitsBelow(ds, limit) ==
  LET s == StripZeros(ds) IN
    \/ Len(s) < Len(limit)
    \/ Len(s) = Len(limit) /\ DigitsLeq(s, limit)

RECURSIVE Accumulate(_, _, _)
\* acc * 10^Len(ds) + sign * (the number ds writes), digit by digit as strtoll does
Accumulate(ds, acc, sign) ==
  IF ds = << >> THEN acc
  ELSE Accumulate(Tail(ds), acc * 10 + sign * DigitValue(ds[1]), sign)

RECURSIVE TrimLeft(_)
TrimLeft(s) == IF s # << >> /\ s[1] = " " THEN TrimLeft(Tail(s)) ELSE s

RECURSIVE TrimRight(_)
TrimRight(s) ==
  IF s # << >> /\ s[Len(s)] = " " THEN TrimRight(SubSeq(s, 1, Len(s) - 1)) ELSE s

\* QString::toInt(): surrounding whitespace is skipped, an optional sign, then
\* decimal digits only; 0 when the conversion fails or the value is no int.
QStringToInt(str) ==
  LET s    == TrimRight(TrimLeft(str))
      neg  == s # << >> /\ s[1] = "-"
      body == IF s # << >> /\ s[1] \in {"-", "+"} THEN Tail(s) ELSE s
  IN  IF body = << >> \/ \E i \in 1..Len(body) : body[i] \notin Digits
        THEN 0
      ELSE IF neg
        THEN IF FitsBelow(body, IntMinDigits) THEN Accumulate(body, 0, -1) ELSE 0
      ELSE IF FitsBelow(body, IntMaxDigits) THEN Accumulate(body, 0, 1) ELSE 0

isEmpty(s) == s = << >>

startsWith(s, c) == s # << >> /\ s[1] = c

\* QString::mid(1): the string without its first character
mid1(s) == IF s = << >> THEN << >> ELSE Tail(s)

(* ------------------------- QJsonValue helpers -------------------------- *)

\* A scalar member: t is "undefined" (absent), "string" or "double"; s is the
\* string, or the decimal text of the (integral, non-negative) number.
Undefined == [t |-> "undefined", s |-> << >>]
JString(s) == [t |-> "string", s |-> s]
JDouble(ds) == [t |-> "double", s |-> ds]

\* QJsonValue::toString(): the string, or a null QString for any other type
toString(v) == IF v.t = "string" THEN v.s ELSE EmptyString

\* QJsonValue::toInt(): the number when it is a double that is an int, else 0
toInt(v) ==
  IF v.t = "double" /\ FitsBelow(v.s, IntMaxDigits) THEN Accumulate(v.s, 0, 1) ELSE 0

\* An element of the "files" array: t is its JSON type, the four members are
\* those of the object (all absent for an element that is no object).
EmptyObject ==
  [t |-> "object", checksum |-> Undefined, path |-> Undefined,
   size |-> Undefined, mtime |-> Undefined]

\* QJsonValue::toObject(): the object, or an empty object for any other type
toObject(e) == IF e.t = "object" THEN e ELSE EmptyObject

\* The "files" member: t is "undefined", "array" or "string"; a is the array.
isArray(v) == v.t = "array"

toArray(v) == IF v.t = "array" THEN v.a ELSE << >>

(* ----------------------------- QDateTime ------------------------------- *)

IsoDates == {"2020-01-01", "2020-01-02"}
IsoTimes == {"T00:00:00.000", "T02:00:00.000"}
IsoZones == {"Z", "+02:00"}

DateHours(d) == IF d = "2020-01-01" THEN 0 ELSE 24
TimeHours(t) == IF t = "T00:00:00.000" THEN 0 ELSE 2
ZoneHours(z) == IF z = "Z" THEN 0 ELSE 2

\* A default-constructed (invalid) QDateTime
InvalidDateTime == [valid |-> FALSE, hours |-> 0, offset |-> 0]

\* QDateTime::fromString(text, Qt::ISODateWithMs): the local time (in hours
\* since 2020-01-01T00:00) and the offset from UTC, or an invalid QDateTime
fromStringIso(text) ==
  IF Len(text) = 3 /\ text[1] \in IsoDates /\ text[2] \in IsoTimes /\ text[3] \in IsoZones
    THEN [valid |-> TRUE, hours |-> DateHours(text[1]) + TimeHours(text[2]),
          offset |-> ZoneHours(text[3])]
    ELSE InvalidDateTime

\* QDateTime::toUTC(): the same instant with offset 0; invalid stays invalid
toUTC(dt) ==
  IF dt.valid THEN [valid |-> TRUE, hours |-> dt.hours - dt.offset, offset |-> 0]
  ELSE dt

(* ------------------------------ MerginFile ----------------------------- *)

\* The size of a default-constructed MerginFile (set in the header).
DefaultSize == 0

\* MerginFile(): the QString and QDateTime members are default constructed.
DefaultMerginFile ==
  [checksum |-> EmptyString, path |-> EmptyString, size |-> DefaultSize,
   mtime |-> InvalidDateTime]

\* (mutant) a file whose timestamp does not parse is dropped to a default record
fromJsonObject_DropsInvalid(merginFileInfo) ==
  IF fromStringIso(toString(merginFileInfo.mtime)).valid
    THEN [checksum |-> toString(merginFileInfo.checksum),
          path     |-> toString(merginFileInfo.path),
          size     |-> toInt(merginFileInfo.size),
          mtime    |-> toUTC(fromStringIso(toString(merginFileInfo.mtime)))]
    ELSE DefaultMerginFile

fromJsonObject(merginFileInfo) ==
  [checksum |-> toString(merginFileInfo.checksum),
   path     |-> toString(merginFileInfo.path),
   size     |-> toInt(merginFileInfo.size),
   mtime    |-> toUTC(fromStringIso(toString(merginFileInfo.mtime)))]

(* ------------------------- MerginProjectMetadata ----------------------- *)

\* The version of a default-constructed MerginProjectMetadata (set in the header).
DefaultVersion == 0

DefaultProject ==
  [files |-> << >>, name |-> EmptyString, projectNamespace |-> EmptyString,
   version |-> DefaultVersion]

\* (mutant) the "v" is not cut off before the conversion
versionOf_KeepsPrefix(versionStr, default) ==
  IF isEmpty(versionStr) THEN 0
  ELSE IF startsWith(versionStr, "v") THEN QStringToInt(versionStr)
  ELSE default

\* The version read from the "version" member (lines 46-55): no branch assigns
\* it when the string is non-empty and does not start with "v".
versionOf(versionStr, default) ==
  IF isEmpty(versionStr) THEN 0
  ELSE IF startsWith(versionStr, "v") THEN QStringToInt(mid1(versionStr))
  ELSE default

\* (mutant) the document is read without the isObject() check
fromJson_NoObjectCheck(doc, debug) ==
  IF debug /\ ~isArray(doc.files)
    THEN [st |-> "aborted", project |-> DefaultProject]
  ELSE
    LET vFilesArray == toArray(doc.files) IN
    [st |-> "returned",
     project |->
       [files |-> [i \in 1..Len(vFilesArray) |-> fromJsonObject(toObject(vFilesArray[i]))],
        name |-> toString(doc.name),
        projectNamespace |-> toString(doc.namespace),
        version |-> versionOf(toString(doc.version), DefaultVersion)]]

\* MerginProjectMetadata::fromJson. doc is QJsonDocument::fromJson(data);
\* debug tells whether Q_ASSERT is compiled in (no QT_NO_DEBUG). The result
\* is the outcome of the call: returned with a project, or aborted.
fromJson(doc, debug) ==
  IF doc.kind # "object"
    THEN [st |-> "returned", project |-> DefaultProject]
  ELSE IF debug /\ ~isArray(doc.files)
    THEN [st |-> "aborted", project |-> DefaultProject]
  ELSE
    LET vFilesArray == toArray(doc.files) IN
    [st |-> "returned",
     project |->
       [files |-> [i \in 1..Len(vFilesArray) |-> fromJsonObject(toObject(vFilesArray[i]))],
        name |-> toString(doc.name),
        projectNamespace |-> toString(doc.namespace),
        version |-> versionOf(toString(doc.version), DefaultVersion)]]

\* (mutant) the test of file.open() is inverted
fromCachedJson_InvertedOpen(readable, doc, debug) ==
  IF ~readable THEN fromJson(doc, debug)
  ELSE [st |-> "returned", project |-> DefaultProject]

\* MerginProjectMetadata::fromCachedJson: readable tells whether
\* file.open(ReadOnly) succeeds, doc is the parse of file.readAll().
fromCachedJson(readable, doc, debug) ==
  IF readable THEN fromJson(doc, debug)
  ELSE [st |-> "returned", project |-> DefaultProject]

RECURSIVE firstMatch(_, _, _)
firstMatch(files, filePath, i) ==
  IF i > Len(files) THEN DefaultMerginFile
  ELSE IF files[i].path = filePath THEN files[i]
  ELSE firstMatch(files, filePath, i + 1)

RECURSIVE lastMatch(_, _, _)
lastMatch(files, filePath, i) ==
  IF i < 1 THEN DefaultMerginFile
  ELSE IF files[i].path = filePath THEN files[i]
  ELSE lastMatch(files, filePath, i - 1)

\* (mutant) the scan keeps the last record that matches
fileInfo_LastMatch(project, filePath) ==
  lastMatch(project.files, filePath, Len(project.files))

\* (mutant) a miss returns the first record instead of MerginFile()
fileInfo_FirstOnMiss(project, filePath) ==
  IF \E i \in 1..Len(project.files) : project.files[i].path = filePath
    THEN firstMatch(project.files, filePath, 1)
  ELSE IF project.files # << >> THEN project.files[1]
  ELSE DefaultMerginFile

\* MerginProjectMetadata::fileInfo
fileInfo(project, filePath) == firstMatch(project.files, filePath, 1)

(* ------------------------ generated documents -------------------------- *)

Str(c) == <<c>>

ValidMtimeText == <<"2020-01-01", "T00:00:00.000", "Z">>
OffsetMtimeText == <<"2020-01-02", "T02:00:00.000", "+02:00">>
InvalidMtimeText == <<"yesterday">>

PathValues == {Undefined, JString(Str("a")), JString(Str("A"))}

\* checksum, size and mtime of the generated file objects
FileVariants ==
  { [checksum |-> JString(<<"c", "1">>), size |-> JDouble(<<"2", "0", "4", "8">>),
     mtime |-> JString(ValidMtimeText)],
    [checksum |-> JString(<<"c", "2">>), size |-> JDouble(IntMinDigits),
     mtime |-> JString(OffsetMtimeText)],
    [checksum |-> JString(<<"c", "3">>), size |-> JDouble(<<"7">>),
     mtime |-> JString(InvalidMtimeText)] }

FileObject(p, v) ==
  [t |-> "object", checksum |-> v.checksum, path |-> p, size |-> v.size,
   mtime |-> v.mtime]

NonObjectElement == [EmptyObject EXCEPT !.t = "string"]

FileElements ==
  {FileObject(p, v) : p \in PathValues, v \in FileVariants} \cup {NonObjectElement}

SeqsUpTo(S, n) == UNION {[1..k -> S] : k \in 0..n}

JArray(a) == [t |-> "array", a |-> a]

FilesValues ==
  {JArray(a) : a \in SeqsUpTo(FileElements, MaxFiles)}
    \cup {[t |-> "undefined", a |-> << >>], [t |-> "string", a |-> << >>]}

Document(files, name, namespace, version) ==
  [kind |-> "object", files |-> files, name |-> name, namespace |-> namespace,
   version |-> version]

SurveyName == <<"S", "u", "r", "v", "e", "y">>
OrgNamespace == <<"o", "r", "g", "1">>

\* Documents whose "files" member varies
FilesDocuments ==
  {Document(f, n, JString(OrgNamespace), v) :
     f \in FilesValues, n \in {Undefined, JString(SurveyName)},
     v \in {Undefined, JString(<<"v", "3">>), JString(Str("7"))}}

VersionChars == {"v", "4", "0", "x", "-", " "}

VersionStrings ==
  SeqsUpTo(VersionChars, MaxVersionLen)
    \cup {<<"v">> \o IntMaxDigits, <<"v">> \o IntMinDigits, <<"v", "-">> \o IntMinDigits}

\* Documents whose "version" member varies
VersionDocuments ==
  {Document(JArray(<<FileObject(JString(Str("a")), CHOOSE fv \in FileVariants : TRUE)>>),
            JString(SurveyName), Undefined, v) :
     v \in {JString(s) : s \in VersionStrings} \cup {Undefined, JDouble(Str("7"))}}

\* Bytes that are no JSON (or a scalar, or empty), and a top-level array
NonObjectDocuments ==
  {[Document([t |-> "undefined", a |-> << >>], Undefined, Undefined, Undefined)
      EXCEPT !.kind = k] :
     k \in {"null", "array"}}

(* ------------------ serialisation of a valid manifest ------------------ *)

RECURSIVE DecimalOf(_)
\* the decimal digits of a natural number
DecimalOf(n) ==
  LET d == CHOOSE c \in Digits : DigitValue(c) = n % 10 IN
    IF n < 10 THEN <<d>> ELSE DecimalOf(n \div 10) \o <<d>>

\* a UTC instant written as ISO-8601 with milliseconds
IsoText(dt) ==
  CHOOSE text \in {<<d, t, "Z">> : d \in IsoDates, t \in IsoTimes} :
    toUTC(fromStringIso(text)) = dt

\* A manifest as the data model has it: size is an integer >= 0 given by its
\* decimal digits, modifiedTime a UTC instant, version an integer >= 0.
ValidRecords ==
  {[path |-> p, checksum |-> v.c, size |-> v.s, mtime |-> v.m] :
     p \in {Str("a"), Str("A")},
     v \in {[c |-> <<"c", "1">>, s |-> <<"2", "0", "4", "8">>,
             m |-> [valid |-> TRUE, hours |-> 0, offset |-> 0]],
            [c |-> <<"c", "2">>, s |-> IntMinDigits,
             m |-> [valid |-> TRUE, hours |-> 26, offset |-> 0]]}}

ValidManifests ==
  {[name |-> SurveyName, projectNamespace |-> OrgNamespace, version |-> v, files |-> f] :
     v \in {0, 3},
     f \in {g \in SeqsUpTo(ValidRecords, MaxFiles) :
              \A i, j \in 1..Len(g) : g[i].path = g[j].path => i = j}}

\* The document of a manifest in the wire format (name, namespace, version
\* "v<int>", files with path, checksum, size, mtime).
serialize(m) ==
  Document(
    JArray([i \in 1..Len(m.files) |->
      [t |-> "object", checksum |-> JString(m.files[i].checksum),
       path |-> JString(m.files[i].path), size |-> JDouble(m.files[i].size),
       mtime |-> JString(IsoText(m.files[i].mtime))]]),
    JString(m.name), JString(m.projectNamespace),
    JString(<<"v">> \o DecimalOf(m.version)))

SerializedDocuments == {serialize(m) : m \in ValidManifests}

Documents ==
  FilesDocuments \cup VersionDocuments \cup NonObjectDocuments \cup SerializedDocuments

LookupPaths == {EmptyString, Str("a"), Str("A"), Str("b")}

(* ------------------------------- state --------------------------------- *)

VARIABLES
  data,        \* QJsonDocument::fromJson of the bytes given (or cached in the file)
  debugBuild,  \* whether Q_ASSERT is compiled in
  call,        \* the entry point called, and whether the cache file could be opened
  outcome,     \* what the call did: returned (with the project) or aborted
  lookup       \* the last fileInfo() call on the returned project

VARIABLES
  platform,        \* __androidUtils.isAndroid / __iosUtils.isIos / neither
  itemWidget,      \* externalResourceHandler.itemWidget
  pickers,         \* the image pickers open, each with the widget that asked for it
  pickerTargetDir, \* picker.targetDir (IOSImagePicker)
  deleteDialog,    \* imageDeleteDialog: visible and imagePath
  sourceToDelete,  \* itemWidget.sourceToDelete of each widget
  storage,         \* the files that exist
  yesSince,        \* per widget: the paths answered Yes since its last onFormCancel
  event            \* the handler that ran last and the valueChanged it sent

metadataVars == <<data, debugBuild, call, outcome, lookup>>

handlerVars ==
  <<platform, itemWidget, pickers, pickerTargetDir, deleteDialog, sourceToDelete,
    storage, yesSince, event>>

VARIABLES
  mProject,          \* MapThemesModel::mProject: null, or a project
  mMapThemes,        \* MapThemesModel::mMapThemes
  mActiveThemeIndex, \* MapThemesModel::mActiveThemeIndex
  mapThemeChanged,   \* the last mapThemeChanged( name ) emitted, if any
  themesRun,         \* the process runs, or it ended in an assertion or a fault
  themeCall          \* the member function called last, and whether it sent
                     \* mapThemesReloaded

themeVars ==
  <<mProject, mMapThemes, mActiveThemeIndex, mapThemeChanged, themesRun, themeCall>>

vars == <<metadataVars, handlerVars, themeVars>>

(* ----------------------- project metadata: actions --------------------- *)

NoCall == [fn |-> "none", readable |-> TRUE]
NoOutcome == [st |-> "none", project |-> DefaultProject]
NoLookup == [done |-> FALSE, path |-> EmptyString, result |-> DefaultMerginFile]

MetadataInit ==
  /\ data \in Documents
  /\ debugBuild \in BOOLEAN
  /\ call = NoCall
  /\ outcome = NoOutcome
  /\ lookup = NoLookup

FromJson ==
  /\ call.fn = "none"
  /\ call' = [fn |-> "fromJson", readable |-> TRUE]
  /\ outcome' = fromJson(data, debugBuild)
  /\ UNCHANGED <<data, debugBuild, lookup, handlerVars, themeVars>>

FromCachedJson ==
  /\ call.fn = "none"
  /\ \E readable \in BOOLEAN :
       /\ call' = [fn |-> "fromCachedJson", readable |-> readable]
       /\ outcome' = fromCachedJson(readable, data, debugBuild)
  /\ UNCHANGED <<data, debugBuild, lookup, handlerVars, themeVars>>

FileInfo ==
  /\ outcome.st = "returned"
  /\ \E filePath \in LookupPaths :
       lookup' = [done |-> TRUE, path |-> filePath,
                  result |-> fileInfo(outcome.project, filePath)]
  /\ UNCHANGED <<data, debugBuild, call, outcome, handlerVars, themeVars>>

(* ----------------------- externalResourceHandler ----------------------- *)

\* The attachment widgets of a form. w1 stores absolute paths
\* (prefixToRelativePath is empty), w2 paths relative to its directory.
Widgets == {"w1", "w2"}
NoWidget == "none"

targetDir(w) == IF w = "w1" THEN "dirA" ELSE "dirB"
prefixToRelativePath(w) == IF w = "w1" THEN "" ELSE "dirB"

ImageNames == {"p.jpg"}

\* A path is a directory and a file name; the empty path has neither.
Path(dir, name) == [dir |-> dir, name |-> name]
NoPath == Path("", "")

ProjectFiles == {Path(targetDir(w), n) : w \in Widgets, n \in ImageNames}
GalleryImages == {Path("gallery", n) : n \in ImageNames}

\* __inputUtils.getFileName
getFileName(path) == path.name

\* itemWidget.getAbsolutePath
getAbsolutePath(prefix, filename) == Path(prefix, filename)

\* QgsQuick.Utils.getRelativePath: the path below prefixPath, or the empty
\* string when the path is not below it
getRelativePath(path, prefixPath) ==
  IF prefixPath = "" THEN path
  ELSE IF path.dir = prefixPath THEN Path("", path.name)
  ELSE NoPath

\* QgsQuick.Utils.fileExists
fileExists(path) == path \in storage

NoEvent ==
  [op |-> "none", w |-> NoWidget, path |-> NoPath, signal |-> FALSE,
   value |-> NoPath, owner |-> NoWidget, clean |-> FALSE]

\* itemWidget.valueChanged(value, isNull) sent to widget w by handler op
Sent(op, w, path, value) == [NoEvent EXCEPT !.op = op, !.w = w, !.path = path,
                                            !.signal = TRUE, !.value = value]

\* the open pickers after a call that names widget w: a picker asked for by
\* another widget no longer has the handler to itself
Disturbed(ps, w) ==
  [i \in 1..Len(ps) |-> [ps[i] EXCEPT !.clean = ps[i].clean /\ ps[i].owner = w]]

Without(ps, i) == SubSeq(ps, 1, i - 1) \o SubSeq(ps, i + 1, Len(ps))

HandlerInit ==
  /\ platform \in {"android", "ios", "desktop"}
  /\ itemWidget = NoWidget
  /\ pickers = << >>
  /\ pickerTargetDir = ""
  /\ deleteDialog = [visible |-> FALSE, imagePath |-> NoPath]
  /\ sourceToDelete = [w \in Widgets |-> NoPath]
  /\ storage \in SUBSET ProjectFiles
  /\ yesSince = [w \in Widgets |-> {}]
  /\ event = NoEvent

\* (mutant) chooseImage does not store the widget it is called for
chooseImage_NoStore(w) ==
  /\ platform = "desktop" \/ Len(pickers) < MaxPending
  /\ pickers' =
       IF platform = "desktop" /\ pickers # << >>
         THEN Disturbed(pickers, w)
         ELSE Append(Disturbed(pickers, w), [owner |-> w, clean |-> TRUE])
  /\ pickerTargetDir' = IF platform = "ios" THEN targetDir(w) ELSE pickerTargetDir
  /\ event' = [NoEvent EXCEPT !.op = "chooseImage", !.w = w]
  /\ UNCHANGED <<platform, itemWidget, deleteDialog, sourceToDelete, storage, yesSince,
                 metadataVars, themeVars>>

\* chooseImage(itemWidget): the widget is stored and the platform's picker is
\* opened (an open FileDialog stays the one dialog it is)
chooseImage(w) ==
  /\ platform = "desktop" \/ Len(pickers) < MaxPending
  /\ itemWidget' = w
  /\ pickers' =
       IF platform = "desktop" /\ pickers # << >>
         THEN Disturbed(pickers, w)
         ELSE Append(Disturbed(pickers, w), [owner |-> w, clean |-> TRUE])
  /\ pickerTargetDir' = IF platform = "ios" THEN targetDir(w) ELSE pickerTargetDir
  /\ event' = [NoEvent EXCEPT !.op = "chooseImage", !.w = w]
  /\ UNCHANGED <<platform, deleteDialog, sourceToDelete, storage, yesSince, metadataVars, themeVars>>

\* removeImage(itemWidget, imagePath)
removeImage(w, imagePath) ==
  /\ IF fileExists(imagePath)
       THEN /\ itemWidget' = w
            /\ deleteDialog' = [visible |-> TRUE, imagePath |-> imagePath]
            /\ pickers' = Disturbed(pickers, w)
            /\ event' = [NoEvent EXCEPT !.op = "removeImage", !.w = w, !.path = imagePath]
       ELSE /\ event' = Sent("removeImage", w, imagePath, NoPath)
            /\ UNCHANGED <<itemWidget, deleteDialog, pickers>>
  /\ UNCHANGED <<platform, pickerTargetDir, sourceToDelete, storage, yesSince, metadataVars, themeVars>>

\* imageSelected(imagePath), on the Android picker's signal or the
\* FileDialog's onAccepted, for the i-th open picker
imageSelected(i, imagePath) ==
  /\ platform \in {"android", "desktop"}
  /\ i \in 1..Len(pickers)
  /\ itemWidget # NoWidget
  /\ LET prefix == IF prefixToRelativePath(itemWidget) # ""
                     THEN prefixToRelativePath(itemWidget)
                     ELSE targetDir(itemWidget)
         filename == getFileName(imagePath)
         absolutePath == getAbsolutePath(prefix, filename)
         newValue == IF prefixToRelativePath(itemWidget) # ""
                       THEN getRelativePath(absolutePath, prefixToRelativePath(itemWidget))
                       ELSE absolutePath
     IN  /\ IF ~fileExists(absolutePath)
              THEN \E success \in BOOLEAN :
                     storage' = IF success THEN storage \cup {absolutePath} ELSE storage
              ELSE storage' = storage
         /\ event' = [Sent("imageSelected", itemWidget, imagePath, newValue)
                        EXCEPT !.owner = pickers[i].owner, !.clean = pickers[i].clean]
  /\ pickers' = Without(pickers, i)
  /\ UNCHANGED <<platform, itemWidget, pickerTargetDir, deleteDialog, sourceToDelete,
                 yesSince, metadataVars, themeVars>>

\* IOSImagePicker.onImageSaved(absoluteImagePath) for the i-th open picker: the
\* picker has saved the image below picker.targetDir, or gives no path
onImageSaved(i, absoluteImagePath) ==
  /\ platform = "ios"
  /\ i \in 1..Len(pickers)
  /\ itemWidget # NoWidget
  /\ IF absoluteImagePath # NoPath
       THEN LET prefixPath == targetDir(itemWidget)
                newCurrentValue == getRelativePath(absoluteImagePath, prefixPath)
            IN  /\ storage' = storage \cup {absoluteImagePath}
                /\ event' = [Sent("imageSaved", itemWidget, absoluteImagePath, newCurrentValue)
                               EXCEPT !.owner = pickers[i].owner, !.clean = pickers[i].clean]
       ELSE /\ storage' = storage
            /\ event' = [NoEvent EXCEPT !.op = "imageSaved"]
  /\ pickers' = Without(pickers, i)
  /\ UNCHANGED <<platform, itemWidget, pickerTargetDir, deleteDialog, sourceToDelete,
                 yesSince, metadataVars, themeVars>>

\* the user leaves the i-th open picker without choosing an image
pickerDismissed(i) ==
  /\ platform \in {"android", "desktop"}
  /\ i \in 1..Len(pickers)
  /\ pickers' = Without(pickers, i)
  /\ event' = [NoEvent EXCEPT !.op = "pickerDismissed"]
  /\ UNCHANGED <<platform, itemWidget, pickerTargetDir, deleteDialog, sourceToDelete,
                 storage, yesSince, metadataVars, themeVars>>

\* imageDeleteDialog.onYes
onYes ==
  /\ deleteDialog.visible
  /\ sourceToDelete' = [sourceToDelete EXCEPT ![itemWidget] = deleteDialog.imagePath]
  /\ event' = Sent("onYes", itemWidget, deleteDialog.imagePath, NoPath)
  /\ deleteDialog' = [deleteDialog EXCEPT !.visible = FALSE]
  /\ yesSince' = [w \in Widgets |-> yesSince[w] \cup {deleteDialog.imagePath}]
  /\ UNCHANGED <<platform, itemWidget, pickers, pickerTargetDir, storage, metadataVars, themeVars>>

\* imageDeleteDialog.onNo, and the onRejected that follows it
onNo ==
  /\ deleteDialog.visible
  /\ event' = Sent("onNo", itemWidget, deleteDialog.imagePath, NoPath)
  /\ deleteDialog' = [deleteDialog EXCEPT !.visible = FALSE]
  /\ UNCHANGED <<platform, itemWidget, pickers, pickerTargetDir, sourceToDelete, storage,
                 yesSince, metadataVars, themeVars>>

\* imageDeleteDialog.onRejected (Cancel, or the dialog is closed)
onRejected ==
  /\ deleteDialog.visible
  /\ event' = [NoEvent EXCEPT !.op = "onRejected", !.path = deleteDialog.imagePath]
  /\ deleteDialog' = [deleteDialog EXCEPT !.visible = FALSE]
  /\ UNCHANGED <<platform, itemWidget, pickers, pickerTargetDir, sourceToDelete, storage,
                 yesSince, metadataVars, themeVars>>

\* __inputUtils.removeFile(path): the files left
removeFile(files, path) == files \ {path}

\* onFormSave(itemWidget)
onFormSave(w) ==
  /\ storage' = removeFile(storage, sourceToDelete[w])
  /\ sourceToDelete' = [sourceToDelete EXCEPT ![w] = NoPath]
  /\ event' = [NoEvent EXCEPT !.op = "onFormSave", !.w = w]
  /\ UNCHANGED <<platform, itemWidget, pickers, pickerTargetDir, deleteDialog, yesSince,
                 metadataVars, themeVars>>

\* (mutant) onFormCancel leaves sourceToDelete as it is
onFormCancel_KeepsSource(w) ==
  /\ yesSince' = [yesSince EXCEPT ![w] = {}]
  /\ event' = [NoEvent EXCEPT !.op = "onFormCancel", !.w = w]
  /\ UNCHANGED <<platform, itemWidget, pickers, pickerTargetDir, deleteDialog,
                 sourceToDelete, storage, metadataVars, themeVars>>

\* onFormCancel(itemWidget)
onFormCancel(w) ==
  /\ sourceToDelete' = [sourceToDelete EXCEPT ![w] = NoPath]
  /\ yesSince' = [yesSince EXCEPT ![w] = {}]
  /\ event' = [NoEvent EXCEPT !.op = "onFormCancel", !.w = w]
  /\ UNCHANGED <<platform, itemWidget, pickers, pickerTargetDir, deleteDialog, storage,
                 metadataVars, themeVars>>

(* ---------------------------- MapThemesModel --------------------------- *)

\* The longest list of map themes.
MaxThemes == 2

ThemeNames == {Str("a"), Str("b")}

\* QList<QString>: the lists a project's theme collection can hold, and the
\* lists setMapThemes can be given.
ThemeLists == SeqsUpTo(ThemeNames, MaxThemes)

\* What a read past the end of a QList can yield in a release build.
StrayNames == ThemeNames \cup {EmptyString}

\* The indexes setActiveThemeIndex is called with: the rows, and one below
\* and one above them.
ThemeIndexes == -1..MaxThemes

NoThemeChanged == [sent |-> FALSE, name |-> EmptyString]

ThemeCall(op, reloaded) == [op |-> op, mapThemesReloaded |-> reloaded]

\* QList::indexOf: the first row holding the name (rows count from 0), or -1
indexOf(list, name) ==
  IF \E k \in 1..Len(list) : list[k] = name
    THEN (CHOOSE k \in 1..Len(list) :
            list[k] = name /\ \A j \in 1..(k - 1) : list[j] # name) - 1
    ELSE -1

rowAccordingName(name, defaultIndex) ==
  LET index == indexOf(mMapThemes, name)
  IN  IF index < 0 THEN defaultIndex ELSE index

\* mProject-> on a null pointer is undefined: the process faults, or the call
\* goes through and the signal is emitted.
applyTheme(name) ==
  \/ /\ mProject = "project"
     /\ mapThemeChanged' = [sent |-> TRUE, name |-> name]
     /\ themesRun' = themesRun
  \/ /\ mProject = "null"
     /\ \/ themesRun' = "aborted" /\ mapThemeChanged' = mapThemeChanged
        \/ themesRun' = themesRun /\ mapThemeChanged' = [sent |-> TRUE, name |-> name]

\* the constructor: mMapThemes is empty, then reloadMapThemes() fills it from
\* the project's collection; mActiveThemeIndex gets its first value in
\* mapthemesmodel.h, so it starts at any value
ThemesInit ==
  /\ mProject \in {"null", "project"}
  /\ mMapThemes \in (IF mProject = "null" THEN {<< >>} ELSE ThemeLists)
  /\ mActiveThemeIndex \in ThemeIndexes
  /\ mapThemeChanged = NoThemeChanged
  /\ themesRun = "running"
  /\ themeCall = ThemeCall("MapThemesModel", mMapThemes # << >>)

\* allThemes: the names in mProject->mapThemeCollection() at the call
reloadMapThemes(allThemes) ==
  /\ themesRun = "running"
  /\ IF mProject = "null"
       THEN /\ mMapThemes' = mMapThemes
            /\ themeCall' = ThemeCall("reloadMapThemes", FALSE)
       ELSE IF mMapThemes # allThemes
         THEN /\ mMapThemes' = allThemes
              /\ themeCall' = ThemeCall("reloadMapThemes", TRUE)
         ELSE /\ mMapThemes' = mMapThemes
              /\ themeCall' = ThemeCall("reloadMapThemes", FALSE)
  /\ UNCHANGED <<mProject, mActiveThemeIndex, mapThemeChanged, themesRun,
                 metadataVars, handlerVars>>

\* mMapThemes.at( i ) with i out of range stops on Q_ASSERT_X in a debug
\* build; in a release build it is undefined: a fault, or a stray name.
setActiveThemeIndexFrom(op, activeThemeIndex) ==
  /\ themesRun = "running"
  /\ mActiveThemeIndex' = activeThemeIndex
  /\ IF activeThemeIndex \in 0..(Len(mMapThemes) - 1)
       THEN applyTheme(mMapThemes[activeThemeIndex + 1])
       ELSE \/ themesRun' = "aborted" /\ mapThemeChanged' = mapThemeChanged
            \/ ~debugBuild /\ \E name \in StrayNames : applyTheme(name)
  /\ themeCall' = ThemeCall(op, FALSE)
  /\ UNCHANGED <<mProject, mMapThemes, metadataVars, handlerVars>>

setActiveThemeIndex(activeThemeIndex) ==
  setActiveThemeIndexFrom("setActiveThemeIndex", activeThemeIndex)

updateMapTheme(name) ==
  LET row == rowAccordingName(name, 0)
  IN  IF row >= 0
        THEN setActiveThemeIndexFrom("updateMapTheme", row)
        ELSE /\ themesRun = "running"
             /\ themeCall' = ThemeCall("updateMapTheme", FALSE)
             /\ UNCHANGED <<mProject, mMapThemes, mActiveThemeIndex, mapThemeChanged,
                            themesRun, metadataVars, handlerVars>>

setMapThemes(mapThemes) ==
  /\ themesRun = "running"
  /\ IF mMapThemes = mapThemes
       THEN /\ mMapThemes' = mMapThemes
            /\ themeCall' = ThemeCall("setMapThemes", FALSE)
       ELSE /\ mMapThemes' = mapThemes
            /\ themeCall' = ThemeCall("setMapThemes", TRUE)
  /\ UNCHANGED <<mProject, mActiveThemeIndex, mapThemeChanged, themesRun,
                 metadataVars, handlerVars>>

\* a model that no call has been made on since its construction
ThemesIdle ==
  /\ mProject = "null"
  /\ mMapThemes = << >>
  /\ mActiveThemeIndex = 0
  /\ mapThemeChanged = NoThemeChanged
  /\ themesRun = "running"
  /\ themeCall = ThemeCall("MapThemesModel", FALSE)

(* --------------------------- specifications ---------------------------- *)

\* The project metadata: one parse of a document, then lookups.
Init ==
  MetadataInit /\ HandlerInit /\ platform = "desktop" /\ storage = {} /\ ThemesIdle

Next == FromJson \/ FromCachedJson \/ FileInfo

Spec == Init /\ [][Next]_vars

\* The attachment widgets of a form and the handler they share.
HandlerSpecInit ==
  /\ HandlerInit
  /\ data = CHOOSE d \in NonObjectDocuments : TRUE
  /\ debugBuild = FALSE
  /\ call = NoCall
  /\ outcome = NoOutcome
  /\ lookup = NoLookup
  /\ ThemesIdle

HandlerNext ==
  \/ \E w \in Widgets : chooseImage(w)
  \/ \E w \in Widgets, imagePath \in ProjectFiles : removeImage(w, imagePath)
  \/ \E i \in 1..MaxPending, imagePath \in GalleryImages : imageSelected(i, imagePath)
  \/ \E i \in 1..MaxPending, n \in ImageNames :
       onImageSaved(i, Path(pickerTargetDir, n)) \/ onImageSaved(i, NoPath)
  \/ \E i \in 1..MaxPending : pickerDismissed(i)
  \/ onYes
  \/ onNo
  \/ onRejected
  \/ \E w \in Widgets : onFormSave(w)
  \/ \E w \in Widgets : onFormCancel(w)

HandlerSpec == HandlerSpecInit /\ [][HandlerNext]_vars

\* A MapThemesModel and the calls made on it, in any order.
ThemesSpecInit ==
  /\ ThemesInit
  /\ data = CHOOSE d \in NonObjectDocuments : TRUE
  /\ debugBuild \in BOOLEAN
  /\ call = NoCall
  /\ outcome = NoOutcome
  /\ lookup = NoLookup
  /\ HandlerInit
  /\ platform = "desktop"
  /\ storage = {}

ThemesNext ==
  \/ \E allThemes \in ThemeLists : reloadMapThemes(allThemes)
  \/ \E mapThemes \in ThemeLists : setMapThemes(mapThemes)
  \/ \E name \in ThemeNames : updateMapTheme(name)
  \/ \E activeThemeIndex \in ThemeIndexes : setActiveThemeIndex(activeThemeIndex)

ThemesSpec == ThemesSpecInit /\ [][ThemesNext]_vars

(* ===================== claims on the project metadata ================== *)

\* A parse of the document has returned (through either entry point).
Parsed == call.fn # "none" /\ call.readable /\ outcome.st = "returned"

MatchingRows(files, filePath) == {i \in 1..Len(files) : files[i].path = filePath}

\* C1: fileInfo returns the first record, in insertion order, whose path is
\* exactly the requested path, with all its fields.
C1_FirstMatchWins ==
  lookup.done =>
    LET files == outcome.project.files
        rows  == MatchingRows(files, lookup.path)
    IN  rows # {} =>
          \E i \in rows : (\A j \in rows : i <= j) /\ lookup.result = files[i]

\* C1 witness: two different records share the requested path and the lookup
\* returned the earlier one; a path differing only in case is in the list too.
C1_Witness ==
  /\ lookup.done
  /\ LET files == outcome.project.files IN
       /\ Len(files) = 2
       /\ files[1].path = lookup.path /\ files[2].path = lookup.path
       /\ files[1] # files[2]
       /\ lookup.result = files[1]

AllDigits(r) == r # << >> /\ \A i \in 1..Len(r) : r[i] \in Digits

\* an optionally signed decimal integer, surrounding blanks ignored
IsIntegerLiteral(r) ==
  \E a, b \in 0..Len(r) :
    /\ a <= b
    /\ \A i \in 1..a : r[i] = " "
    /\ \A i \in (b + 1)..Len(r) : r[i] = " "
    /\ \/ AllDigits(SubSeq(r, a + 1, b))
       \/ a < b /\ r[a + 1] \in {"-", "+"} /\ AllDigits(SubSeq(r, a + 2, b))

\* the digits write a number of at most 2147483647
WritesAnInt(r) ==
  LET s == StripZeros(r) IN
    \/ Len(s) < Len(IntMaxDigits)
    \/ /\ Len(s) = Len(IntMaxDigits)
       /\ \/ s = IntMaxDigits
          \/ \E k \in 1..Len(s) :
               /\ \A i \in 1..(k - 1) : s[i] = IntMaxDigits[i]
               /\ DigitValue(s[k]) < DigitValue(IntMaxDigits[k])

VersionText == IF data.version.t = "string" THEN data.version.s ELSE << >>

\* The cases of C2 that the code decides the way the claim says.
VersionCasesAgreed ==
  LET s == VersionText
      version == outcome.project.version
  IN  /\ s = << >> => version = 0
      /\ (s # << >> /\ s[1] = "v" /\ ~IsIntegerLiteral(Tail(s))) => version = 0
      /\ (s # << >> /\ s[1] # "v") => version = 0

C3_NonObjectGivesEmpty ==
  (call.fn # "none" /\ call.readable /\ data.kind # "object") =>
    /\ outcome.st = "returned"
    /\ outcome.project.files = << >>
    /\ outcome.project.name = << >>
    /\ outcome.project.projectNamespace = << >>
    /\ outcome.project.version = 0

\* C3 witness: fromJson returned for a document whose top level is an array.
C3_Witness ==
  call.fn = "fromJson" /\ data.kind = "array" /\ outcome.st = "returned"

\* C4: parse reaches its return for every input, no assertion is violated.
C4_ParseAlwaysReturns ==
  call.fn # "none" => outcome.st = "returned"

\* C5 (as claimed): lookup returns the empty record (empty path field) if and
\* only if no record of the manifest has the requested path.
C5_EmptyIffAbsent ==
  lookup.done =>
    (lookup.result.path = << >>
       <=> MatchingRows(outcome.project.files, lookup.path) = {})

\* what C5 says of a lookup, for a requested path that is not empty
LookupTellsAbsence ==
  (lookup.done /\ lookup.path # << >>) =>
    IF MatchingRows(outcome.project.files, lookup.path) = {}
      THEN /\ lookup.result.path = << >>
           /\ lookup.result.checksum = << >>
           /\ ~lookup.result.mtime.valid
      ELSE lookup.result.path = lookup.path

\* C5 (amended): for every requested path that is not empty, lookup returns
\* the empty record (empty path field) if and only if no record has that path;
\* no lookup changes the manifest.
C5_EmptyIffAbsentNonEmptyPath ==
  [](LookupTellsAbsence) /\ [][lookup' # lookup => outcome' = outcome]_vars

\* C5 witness: a lookup of a path missing from a manifest that has files
\* returned the empty record.
C5_Witness ==
  /\ lookup.done /\ lookup.path = <<"b">>
  /\ outcome.project.files # << >>
  /\ lookup.result.path = << >>

\* the parsed project has the fields of manifest m
SameManifest(project, m) ==
  /\ project.name = m.name
  /\ project.projectNamespace = m.projectNamespace
  /\ project.version = m.version
  /\ Len(project.files) = Len(m.files)
  /\ \A i \in 1..Len(m.files) :
       /\ project.files[i].path = m.files[i].path
       /\ project.files[i].checksum = m.files[i].checksum
       /\ project.files[i].size >= 0
       /\ DecimalOf(project.files[i].size) = StripZeros(m.files[i].size)
       /\ project.files[i].mtime = m.files[i].mtime

\* C6: parsing the serialized document of a valid manifest m yields m.
C6_RoundTrip ==
  \A m \in ValidManifests :
    (call.fn # "none" /\ call.readable /\ data = serialize(m)) =>
      outcome.st = "returned" /\ SameManifest(outcome.project, m)

IsIsoText(text) ==
  Len(text) = 3 /\ text[1] \in IsoDates /\ text[2] \in IsoTimes /\ text[3] \in IsoZones

\* the document with the "mtime" of its i-th file replaced
WithMtime(doc, i, text) == [doc EXCEPT !.files.a[i].mtime = JString(text)]

\* C7: a file whose "mtime" is no valid timestamp gets the invalid timestamp,
\* and everything else of the result is what it would be with a valid one.
C7_InvalidMtimeAbsorbed ==
  (call.fn # "none" /\ call.readable /\ data.kind = "object" /\ isArray(data.files)) =>
    \A i \in 1..Len(data.files.a) :
      LET e == data.files.a[i] IN
      (e.t = "object" /\ e.mtime.t = "string" /\ ~IsIsoText(e.mtime.s)) =>
        /\ outcome.st = "returned"
        /\ Len(outcome.project.files) = Len(data.files.a)
        /\ ~outcome.project.files[i].mtime.valid
        /\ LET other == fromJson(WithMtime(data, i, ValidMtimeText), debugBuild).project IN
             /\ other.files[i].mtime.valid
             /\ outcome.project =
                  [other EXCEPT !.files[i].mtime = outcome.project.files[i].mtime]

\* C7 witness: a parsed list of two files, the first with an invalid "mtime"
\* and a path, the second with a valid timestamp.
C7_Witness ==
  /\ Parsed /\ data.kind = "object" /\ isArray(data.files)
  /\ Len(data.files.a) = 2
  /\ data.files.a[1].t = "object"
  /\ data.files.a[1].mtime = JString(InvalidMtimeText)
  /\ outcome.project.files[1].path = <<"a">>
  /\ ~outcome.project.files[1].mtime.valid
  /\ outcome.project.files[2].mtime.valid

\* C8: fromCachedJson returns the default manifest when the file cannot be
\* opened, and otherwise exactly what fromJson does for the file's contents.
C8_CachedIsParseOrDefault ==
  call.fn = "fromCachedJson" =>
    IF call.readable
      THEN outcome = fromJson(data, debugBuild)
      ELSE outcome.st = "returned" /\ outcome.project = DefaultProject

\* C8 witness: an unreadable cache file of a document with files gave the
\* default manifest.
C8_Witness ==
  /\ call.fn = "fromCachedJson" /\ ~call.readable
  /\ data.kind = "object" /\ isArray(data.files) /\ data.files.a # << >>
  /\ outcome.project.files = << >>

(* ================= claims on the externalResourceHandler =============== *)

\* the last handler sent the valueChanged of an image selection
SelectionDelivered == event.op \in {"imageSelected", "imageSaved"} /\ event.signal

\* C9 (as claimed): in every interleaving, the valueChanged of an image
\* selection goes to the widget whose chooseImage call opened the picker.
C9_DeliveredToChooser ==
  SelectionDelivered => event.w = event.owner

\* C9 (amended): the valueChanged of an image selection goes to the widget
\* whose chooseImage call opened the picker, provided no chooseImage, and no
\* removeImage of an existing file, was called for another widget since.
C9_DeliveredToChooserUndisturbed ==
  (SelectionDelivered /\ event.clean) => event.w = event.owner

\* C9 witness: two widgets have a picker open each, and the selection of the
\* one that asked last was delivered to it.
C9_Witness ==
  /\ SelectionDelivered /\ event.clean
  /\ event.w = event.owner
  /\ pickers # << >> /\ pickers[1].owner # event.w

\* C10: a file is removed only by onFormSave(w), and only a path answered Yes
\* in the delete dialog with no onFormCancel(w) since; No, a rejected dialog
\* and onFormCancel remove nothing; removeImage of a path whose file does not
\* exist opens no dialog and removes nothing.
C10_RemovedOnlyOnSaveAfterYes ==
  [][ /\ \A f \in storage \ storage' :
           event'.op = "onFormSave" /\ f \in yesSince[event'.w]
      /\ event'.op \in {"onNo", "onRejected", "onFormCancel"} => storage' = storage
      /\ (event'.op = "removeImage" /\ event'.path \notin storage) =>
           deleteDialog' = deleteDialog /\ storage' = storage
    ]_vars

\* C10 witness: onFormSave(w) has run and a path answered Yes is gone, while
\* the other widget's form was cancelled.
C10_Witness ==
  /\ event.op = "onFormSave"
  /\ \E f \in yesSince[event.w] : f \notin storage
  /\ \E w \in Widgets : w # event.w /\ yesSince[w] = {}

(* ====================== claims on the MapThemesModel =================== *)

\* an active theme has been set: a mapThemeChanged( name ) was emitted
ActiveThemeSet == mapThemeChanged.sent /\ themesRun = "running"

\* C11: after any sequence of reloadMapThemes, setMapThemes, updateMapTheme
\* and setActiveThemeIndex calls, once an active theme has been set,
\* 0 <= activeThemeIndex < rowCount() and the name at row activeThemeIndex is
\* the name of the last mapThemeChanged.
C11_ActiveIndexDesignatesTheme ==
  ActiveThemeSet =>
    /\ 0 <= mActiveThemeIndex
    /\ mActiveThemeIndex < Len(mMapThemes)
    /\ mMapThemes[mActiveThemeIndex + 1] = mapThemeChanged.name

====
